---- MODULE Spec2Model ----
(***************************************************************************)
(* Model of the observation hook (skills/continuous-learning-v2/hooks/     *)
(* observe.py): short-lived observe processes that append JSON-lines       *)
(* records to one active log and rotate it by rename into an archive       *)
(* directory; of the session hooks (scripts/hooks/pre_compact.py and        *)
(* session_end.py) on the marker, metadata and compaction-log files of the *)
(* sessions directory; of the evaluation gate (skills/continuous-learning/ *)
(* evaluate_session.py); and of find_files (scripts/lib/utils.py).         *)
(*                                                                         *)
(* Conventions.                                                            *)
(*  - A Python str is a sequence of symbols: one-character strings, and in  *)
(*    a stdin text one symbol for each quoted key or literal.              *)
(*  - A JSON value is a record [t, s, ks]: t is the Python type json.loads *)
(*    yields ("str", "dict", "list", "num", "null"), s the characters of a *)
(*    str or num, ks the keys of a dict or the elements of a list.         *)
(*  - The filesystem has POSIX semantics (the semantics pathlib documents  *)
(*    for Unix): rename replaces an existing target, an open descriptor    *)
(*    follows its file through a rename, O_APPEND writes are atomic.       *)
(*  - A file is a sequence of written chunks; a chunk carries the JSON     *)
(*    text of an observation (body), its terminating newline (nl), or both.*)
(***************************************************************************)
EXTENDS Integers, Sequences, FiniteSets, TLC

\* ------------------------------------------------------------------ bounds
\* Number of concurrently running observe processes under Spec.
NProcs == 2
\* Invocations started in one behaviour of Spec (concurrent processes).
MaxRuns == 3
\* Invocations started in one behaviour of SeqSpec (one process at a time).
MaxSeqRuns == 3
\* Invocations started in one behaviour of FaultSpec (filesystem errors).
MaxFaultRuns == 2
\* Marker files created in one behaviour of HookSpec.
MaxMarkers == 2
\* Invocations of pre_compact and session_end in one behaviour of HookSpec.
MaxHookRuns == 3
\* User messages of each encoding in a transcript given to the gate.
MaxMessages == 6
\* find_files is called at the second MaxMTime, on files modified at the
\* seconds 0..MaxMTime.
MaxMTime == 3
\* Seconds per day, scaled down from 60 * 60 * 24 (utils.py line 116).
SecsPerDay == 2
\* Invocations started, and direct calls of archive_if_needed made, in one
\* behaviour of CheckSpec.
MaxCheckRuns == 2
MaxChecks == 2
\* Invocations of the tool-count check started in one behaviour of
\* CompactSpec.
MaxCounts == 3
\* The clock runs over the seconds 0..MaxTime.
MaxTime == 1
\* Bytes per megabyte, scaled down from 1024 * 1024 (observe.py line 34).
BytesPerMB == 1

\* ------------------------------------------------------- program constants
\* Default of archive_if_needed's max_size_mb parameter (observe.py line 28).
max_size_mb == 10
\* The cap on the raw field of a parse_error record (observe.py line 123).
RawCap == 1000
\* The cap on the serialized tool input and output (observe.py lines 60-67).
FieldCap == 5000
\* The default of min_session_length (evaluate_session.py line 56).
DefaultMinSessionLength == 10
\* The default of COMPACT_THRESHOLD (suggest_compact.py line 26).
DefaultThreshold == 50
\* The interval of the later suggestions (suggest_compact.py line 45).
SuggestInterval == 25
\* The length of a short session id (session_end.py line 32, utils.py
\* line 79).
ShortLen == 8

Procs == 1..NProcs

\* ----------------------------------------------------------------- strings
\* s[:n]
Prefix(s, n) == IF Len(s) <= n THEN s ELSE SubSeq(s, 1, n)

\* s[-n:]
Suffix(s, n) == IF Len(s) <= n THEN s ELSE SubSeq(s, Len(s) - n + 1, Len(s))

\* sub in s, for two str
Contains(sub, s) ==
    \E i \in 0..(Len(s) - Len(sub)) : SubSeq(s, i + 1, i + Len(sub)) = sub

\* s.strip() is empty: every character is whitespace
IsBlank(s) == \A i \in 1..Len(s) : s[i] \in {" ", "\n", "\t"}

RECURSIVE Concat(_)
Concat(ss) == IF ss = <<>> THEN <<>> ELSE Head(ss) \o Concat(Tail(ss))

Pre == <<"P", "r", "e">>
unknown == <<"u", "n", "k", "n", "o", "w", "n">>
\* "default"
fallback == <<"d", "e", "f", "a", "u", "l", "t">>

\* ------------------------------------------------------------- JSON values
JStr(s) == [t |-> "str", s |-> s, ks |-> <<>>]
JNum(s) == [t |-> "num", s |-> s, ks |-> <<>>]
JNull == [t |-> "null", s |-> <<>>, ks |-> <<>>]
JDict(ks) == [t |-> "dict", s |-> <<>>, ks |-> ks]
JList(ks) == [t |-> "list", s |-> <<>>, ks |-> ks]

\* json.dumps(v) of a dict, by its keys
json_dumps_dict(v) == <<"{">> \o Concat(v.ks) \o <<"}">>

\* str(v)
py_str(v) ==
    CASE v.t = "str" -> v.s
      [] v.t = "num" -> v.s
      [] v.t = "null" -> <<"N", "o", "n", "e">>
      [] v.t = "list" -> <<"[">> \o Concat(v.ks) \o <<"]">>
      [] v.t = "dict" -> <<"{">> \o Concat(v.ks) \o <<"}">>

\* "Pre" in v raises TypeError unless v is a container or a str
InRaises(v) == v.t \in {"num", "null"}

\* "Pre" in v: substring of a str, element of a list, key of a dict
InValue(sub, v) ==
    CASE v.t = "str" -> Contains(sub, v.s)
      [] v.t \in {"list", "dict"} -> \E i \in 1..Len(v.ks) : v.ks[i] = sub
      [] OTHER -> FALSE

\* ------------------------------------------------------------ stdin texts
\* What json.loads(text) does with one stdin text: raise (ok = FALSE), or
\* return a value of type t; for a dict, f maps its keys to their values.
NoKeys == [k \in {} |-> JNull]
Doc(raw, ok, t, f) == [raw |-> raw, ok |-> ok, t |-> t, f |-> f]

Keys1(k1, v1) == [k \in {k1} |-> v1]
Keys2(k1, v1, k2, v2) == [k \in {k1, k2} |-> IF k = k1 THEN v1 ELSE v2]
Keys3(k1, v1, k2, v2, k3, v3) ==
    [k \in {k1, k2, k3} |-> IF k = k1 THEN v1 ELSE IF k = k2 THEN v2 ELSE v3]

\* whitespace only
InBlank == Doc(<<" ", "\n">>, FALSE, "none", NoKeys)
\* not JSON
InMalformed == Doc(<<"{", "x", "y", "z">>, FALSE, "none", NoKeys)
\* valid JSON, not an object: 7
InNumber == Doc(<<"7">>, TRUE, "num", NoKeys)
\* {"hook_type":"PreT","tool_name":"E","session_id":"s"}
InPre ==
    Doc(<<"{", "hook_type", ":", "PreT", ",", "tool_name", ":", "E", ",",
          "session_id", ":", "s", "}">>, TRUE, "dict",
        Keys3("hook_type", JStr(<<"P", "r", "e", "T">>),
              "tool_name", JStr(<<"E">>), "session_id", JStr(<<"s">>)))
\* {"hook_type":"Post","tool_name":"E","session_id":"s"}
InPost ==
    Doc(<<"{", "hook_type", ":", "Post", ",", "tool_name", ":", "E", ",",
          "session_id", ":", "s", "}">>, TRUE, "dict",
        Keys3("hook_type", JStr(<<"P", "o", "s", "t">>),
              "tool_name", JStr(<<"E">>), "session_id", JStr(<<"s">>)))
\* {"hook_type":"Post","tool":"Ed","output":"ok"}: the alias keys
InPostOut ==
    Doc(<<"{", "hook_type", ":", "Post", ",", "tool", ":", "Ed", ",",
          "output", ":", "ok", "}">>, TRUE, "dict",
        Keys3("hook_type", JStr(<<"P", "o", "s", "t">>),
              "tool", JStr(<<"E", "d">>), "output", JStr(<<"o", "k">>)))
\* {"hook_type":"xPre","tool_input":"","tool_output":"ok"}: empty input
InPreEmpty ==
    Doc(<<"{", "hook_type", ":", "xPre", ",", "tool_input", ":", "", ",",
          "tool_output", ":", "ok", "}">>, TRUE, "dict",
        Keys3("hook_type", JStr(<<"x", "P", "r", "e">>),
              "tool_input", JStr(<<>>), "tool_output", JStr(<<"o", "k">>)))
\* {"hook_type":"pre","input":{"p":1}}: lower case, with a tool input
InLower ==
    Doc(<<"{", "hook_type", ":", "pre", ",", "input", ":", "{", "p", ":",
          "1", "}", "}">>, TRUE, "dict",
        Keys2("hook_type", JStr(<<"p", "r", "e">>),
              "input", JDict(<< <<"p">> >>)))
\* {"hook_type":["Pre"]}: hook_type is a list
InList ==
    Doc(<<"{", "hook_type", ":", "[", "Pre", "]", "}">>, TRUE, "dict",
        Keys1("hook_type", JList(<<Pre>>)))
\* {"hook_type":5}: hook_type is a number
InNum5 ==
    Doc(<<"{", "hook_type", ":", "5", "}">>, TRUE, "dict",
        Keys1("hook_type", JNum(<<"5">>)))

\* {"hook_type":"Post","tool_name":"E","session_id":"abcdef1234"}
InLongSession ==
    Doc(<<"{", "hook_type", ":", "Post", ",", "tool_name", ":", "E", ",",
          "session_id", ":", "abcdef1234", "}">>, TRUE, "dict",
        Keys3("hook_type", JStr(<<"P", "o", "s", "t">>),
              "tool_name", JStr(<<"E">>),
              "session_id",
              JStr(<<"a", "b", "c", "d", "e", "f", "1", "2", "3", "4">>)))

\* The stdin texts of SeqSpec, and those of Spec.
SeqInputs ==
    {InBlank, InMalformed, InNumber, InPre, InPost, InPostOut, InPreEmpty,
     InLower, InList, InNum5}
ConcInputs == {InMalformed, InPre}
\* The stdin texts of FaultSpec.
FaultInputs == {InMalformed, InLongSession, InLower}

\* --------------------------------------------------------- parse_hook_input
\* A value that may be None.
None == [some |-> FALSE, v |-> <<>>]
Some(s) == [some |-> TRUE, v |-> s]
\* the truth value of an optional str
Truthy(x) == x.some /\ x.v # <<>>

\* data.get(k, default)
Get(doc, k, default) == IF k \in DOMAIN doc.f THEN doc.f[k] ELSE default

\* json.dumps(v)[:5000] of a dict, str(v)[:5000] of anything else
Serialize(v) ==
    IF v.t = "dict" THEN Prefix(json_dumps_dict(v), FieldCap)
    ELSE Prefix(py_str(v), FieldCap)

Failed(error) ==
    [parsed |-> FALSE, error |-> error, event |-> "", tool |-> JNull,
     input |-> None, output |-> None, session |-> JNull]

EventOf(hook_type) ==
    IF InValue(Pre, hook_type) THEN "tool_start" ELSE "tool_complete"

\* A parse that keeps the input whatever the event.
InputOfAnyEvent(event, tool_input) == Some(Serialize(tool_input))

\* Line 76: the input is kept on tool_start only.
InputOf(event, tool_input) ==
    IF event = "tool_start" THEN Some(Serialize(tool_input)) ELSE None

\* Line 77: the output is kept on tool_complete only.
OutputOf(event, tool_output) ==
    IF event = "tool_complete" THEN Some(Serialize(tool_output)) ELSE None

\* A parse that shortens the session id as the marker file names do.
SessionOfShort(doc) ==
    IF "session_id" \in DOMAIN doc.f /\ doc.f["session_id"].t = "str"
      THEN JStr(Suffix(doc.f["session_id"].s, ShortLen))
      ELSE Get(doc, "session_id", JStr(unknown))

\* Line 56: the session id as supplied.
SessionOf(doc) == Get(doc, "session_id", JStr(unknown))

parse_hook_input(doc) ==
    IF ~doc.ok THEN Failed("JSONDecodeError")
    ELSE IF doc.t # "dict" THEN Failed("AttributeError")
    ELSE
      LET hook_type == Get(doc, "hook_type", JStr(unknown))
          tool_name == Get(doc, "tool_name", Get(doc, "tool", JStr(unknown)))
          tool_input == Get(doc, "tool_input", Get(doc, "input", JDict(<<>>)))
          tool_output == Get(doc, "tool_output", Get(doc, "output", JStr(<<>>)))
          session_id == SessionOf(doc)
          event == EventOf(hook_type)
      IN IF InRaises(hook_type) THEN Failed("TypeError")
         ELSE [parsed |-> TRUE, error |-> "", event |-> event,
               tool |-> tool_name,
               input |-> InputOf(event, tool_input),
               output |-> OutputOf(event, tool_output),
               session |-> session_id]

\* ------------------------------------------------------------ observations
\* An observation dict: has is its key set, the other fields the values of
\* the keys it has.
ParseErrorObservation(timestamp, raw) ==
    [has |-> {"timestamp", "event", "raw"}, timestamp |-> timestamp,
     event |-> "parse_error", tool |-> JNull, session |-> JNull,
     input |-> <<>>, output |-> <<>>, raw |-> Prefix(raw, RawCap)]

HasInput(parsed) == Truthy(parsed.input)
HasOutput(parsed) == Truthy(parsed.output)

ToolObservation(timestamp, parsed) ==
    [has |-> {"timestamp", "event", "tool", "session"}
               \cup (IF HasInput(parsed) THEN {"input"} ELSE {})
               \cup (IF HasOutput(parsed) THEN {"output"} ELSE {}),
     timestamp |-> timestamp, event |-> parsed.event, tool |-> parsed.tool,
     session |-> parsed.session,
     input |-> IF HasInput(parsed) THEN parsed.input.v ELSE <<>>,
     output |-> IF HasOutput(parsed) THEN parsed.output.v ELSE <<>>,
     raw |-> <<>>]

NoObservation ==
    [has |-> {}, timestamp |-> 0, event |-> "", tool |-> JNull,
     session |-> JNull, input |-> <<>>, output |-> <<>>, raw |-> <<>>]

\* len(json.dumps(observation) + "\n"), scaled: one symbol per key, the
\* symbols of each value (one for the timestamp, one for the event), and the
\* newline.
ValueLen(v) == Len(py_str(v))
LineBytes(o) ==
    Cardinality(o.has) + 1 + 1
      + (IF "tool" \in o.has THEN ValueLen(o.tool) ELSE 0)
      + (IF "session" \in o.has THEN ValueLen(o.session) ELSE 0)
      + Len(o.input) + Len(o.output) + Len(o.raw) + 1
\* ---------------------------------------------------------------- the state
VARIABLES
    now,        \* the clock, in seconds
    disabled,   \* whether the sentinel file "disabled" exists in the config root
    dirs,       \* the directories that exist: "config", "archive", "sessions"
    files,      \* files[i] is the content of inode i: a sequence of chunks
    active,     \* the inode observations.jsonl names, 0 when the path is absent
    archive,    \* the archive directory: archive timestamp -> inode
    loc,        \* loc[p]: the position and the local variables of process p
    runs,       \* the number of invocations started
    journal     \* history: the write calls made so far

\* The session hooks and the sessions directory.
VARIABLES
    markers,        \* the marker files, by name: their blocks and st_mtime
    metadata,       \* the metadata files, by name: content, and who wrote
    compaction_log, \* the lines of compaction-log.txt
    stderr          \* how often each final message was printed

\* One run of the evaluation gate and one call of find_files.
VARIABLES gate_in, gate_out, find_in, find_out

\* Direct calls of archive_if_needed, and the tool-count check.
VARIABLES
    checks,         \* history: for each direct call, what it found
    counter_file,   \* the counter file of the session: its text
    sc,             \* sc[p]: the position and the locals of check process p
    sc_stderr,      \* the lines the check processes have printed
    started,        \* the number of check invocations started
    completed       \* history: the count the invocations so far add up to

obsVars == <<disabled, files, active, archive, loc, runs, journal>>
hookVars == <<markers, metadata, compaction_log, stderr>>
gateVars == <<gate_in, gate_out>>
findVars == <<find_in, find_out>>
compactVars == <<counter_file, sc, sc_stderr, started, completed>>
restVars == <<checks, compactVars>>
vars == <<now, dirs, obsVars, hookVars, gateVars, findVars, restVars>>

\* The byte threshold: size_mb >= max_size_mb, size_mb = st_size / (1024 * 1024).
Threshold == max_size_mb * BytesPerMB

\* A chunk given to one write call.
Chunk(o, id, body, nl) == [obs |-> o, id |-> id, body |-> body, nl |-> nl]
ChunkBytes(c) == (IF c.body THEN LineBytes(c.obs) - 1 ELSE 0) + (IF c.nl THEN 1 ELSE 0)

RECURSIVE Size(_)
\* st_size of a file content
Size(content) ==
    IF content = <<>> THEN 0 ELSE ChunkBytes(Head(content)) + Size(Tail(content))

\* A writer that gives the JSON text and the newline to two write calls.
WriteCallsSplit(o, id) == << Chunk(o, id, TRUE, FALSE), Chunk(o, id, FALSE, TRUE) >>

\* The write calls f.write(json.dumps(observation) + "\n") makes: one.
WriteCalls(o, id) == << Chunk(o, id, TRUE, TRUE) >>

Idle ==
    [pc |-> "idle", id |-> 0, input |-> InBlank, parsed |-> Failed(""),
     observation |-> NoObservation, checked |-> FALSE, st_size |-> 0,
     archive_path |-> 0, f |-> 0, buf |-> <<>>, swallowed |-> FALSE]

\* No file, no directory, no process.
ObserveInit ==
    /\ now = 0
    /\ disabled = FALSE
    /\ dirs = {}
    /\ files = <<>>
    /\ active = 0
    /\ archive = [n \in {} |-> 0]
    /\ loc = [p \in Procs |-> Idle]
    /\ runs = 0
    /\ journal = {}

NoFiles == [k \in {} |-> 0]
\* The last line each hook prints: "[PreCompact] State saved before
\* compaction", "[PreCompact] Error: ...", "[SessionEnd] Session state saved
\* to ...".
NoStderr == [m \in {"saved", "error", "ended"} |-> 0]

\* No session file, no session hook has run.
HooksInit ==
    /\ markers = NoFiles
    /\ metadata = NoFiles
    /\ compaction_log = <<>>
    /\ stderr = NoStderr

\* The gate has not run, find_files has not been called.
NotCalled == [called |-> FALSE]
GateInit == gate_in = NotCalled /\ gate_out = NotCalled
FindInit == find_in = NotCalled /\ find_out = NotCalled

\* The counter file: absent, or holding the text of a count; write_text
\* leaves it empty between its open and its write.
NoCounter == [exists |-> FALSE, empty |-> FALSE, n |-> 0]
Counter(n) == [exists |-> TRUE, empty |-> FALSE, n |-> n]
Truncated == [exists |-> TRUE, empty |-> TRUE, n |-> 0]

\* COMPACT_THRESHOLD: unset, the text of an integer, or another text.
EnvUnset == [set |-> FALSE, valid |-> FALSE, n |-> 0]
EnvInt(n) == [set |-> TRUE, valid |-> TRUE, n |-> n]
EnvGarbage == [set |-> TRUE, valid |-> FALSE, n |-> 0]

AtRest ==
    [pc |-> "idle", env |-> EnvUnset, threshold |-> 0, count |-> 0,
     saved |-> FALSE]

\* No direct call made; no check process running, the session has made c
\* tool calls so far.
RestInit(c) ==
    /\ checks = <<>>
    /\ counter_file = IF c = 0 THEN NoCounter ELSE Counter(c)
    /\ sc = [p \in Procs |-> AtRest]
    /\ sc_stderr = <<>>
    /\ started = 0
    /\ completed = c

Init ==
    /\ ObserveInit
    /\ HooksInit
    /\ GateInit
    /\ FindInit
    /\ RestInit(0)

\* ------------------------------------------------------------------- main
\* The observation of lines 132-142, built when archive_if_needed returns,
\* and the call of write_observation.
CallWrite(l) ==
    [l EXCEPT !.pc = "w_open",
              !.observation = ToolObservation(l.observation.timestamp, l.parsed)]

\* An entry point that does not look at the sentinel.
SentinelIgnored == FALSE

\* Line 100: (config_dir / "disabled").exists()
IsDisabled == disabled

\* Lines 93-126: the config directory, the disabled sentinel, stdin, the
\* parse and the timestamp; a parse error goes to write_observation at once.
main_start(p, limit, inputs) ==
    /\ loc[p].pc = "idle"
    /\ runs < limit
    /\ \E in \in inputs :
         LET parsed == parse_hook_input(in)
             begun == [Idle EXCEPT !.id = runs + 1, !.input = in]
         IN loc' = [loc EXCEPT ![p] =
                IF IsDisabled \/ IsBlank(in.raw)
                  THEN Idle
                ELSE IF ~parsed.parsed
                  THEN [begun EXCEPT
                          !.pc = "w_open", !.parsed = parsed,
                          !.observation = ParseErrorObservation(now, in.raw)]
                ELSE [begun EXCEPT
                        !.pc = "a_exists", !.parsed = parsed,
                        !.observation = [NoObservation EXCEPT !.timestamp = now]]]
    /\ dirs' = dirs \cup {"config"}
    /\ runs' = runs + 1
    /\ UNCHANGED <<now, disabled, files, active, archive, journal>>
    /\ UNCHANGED <<hookVars, gateVars, findVars>>
    /\ UNCHANGED restVars

\* ------------------------------------------------------ archive_if_needed
\* A comparison that leaves a log exactly at the threshold in place.
NeedsArchiveStrict(st_size) == st_size > Threshold

\* size_mb >= max_size_mb
NeedsArchive(st_size) == st_size >= Threshold

\* observations_file.rename(archive_path): the target is replaced.
Rename(arch, archive_path, ino) ==
    [n \in DOMAIN arch \cup {archive_path} |->
        IF n = archive_path THEN ino ELSE arch[n]]

\* Line 30: observations_file.exists()
archive_exists(p) ==
    /\ loc[p].pc = "a_exists"
    /\ loc' = [loc EXCEPT ![p] =
          IF active = 0 THEN CallWrite([@ EXCEPT !.checked = TRUE])
          ELSE [@ EXCEPT !.pc = "a_stat", !.checked = TRUE]]
    /\ UNCHANGED <<now, disabled, dirs, files, active, archive, runs, journal>>
    /\ UNCHANGED <<hookVars, gateVars, findVars>>
    /\ UNCHANGED restVars

\* Lines 34-35: stat and the comparison; a missing file raises OSError,
\* which line 42 swallows.
archive_stat(p) ==
    /\ loc[p].pc = "a_stat"
    /\ loc' = [loc EXCEPT ![p] =
          IF active = 0 THEN CallWrite(@)
          ELSE IF NeedsArchive(Size(files[active]))
            THEN [@ EXCEPT !.pc = "a_mkdir", !.st_size = Size(files[active])]
          ELSE CallWrite([@ EXCEPT !.st_size = Size(files[active])])]
    /\ UNCHANGED <<now, disabled, dirs, files, active, archive, runs, journal>>
    /\ UNCHANGED <<hookVars, gateVars, findVars>>
    /\ UNCHANGED restVars

\* Lines 36-40: the archive directory and the archive name.
archive_mkdir(p) ==
    /\ loc[p].pc = "a_mkdir"
    /\ dirs' = dirs \cup {"config", "archive"}
    /\ loc' = [loc EXCEPT ![p] = [@ EXCEPT !.pc = "a_rename", !.archive_path = now]]
    /\ UNCHANGED <<now, disabled, files, active, archive, runs, journal>>
    /\ UNCHANGED <<hookVars, gateVars, findVars>>
    /\ UNCHANGED restVars

\* Line 41: the rename; a missing source raises OSError, which line 42
\* swallows.
archive_rename(p) ==
    /\ loc[p].pc = "a_rename"
    /\ IF active = 0
         THEN UNCHANGED <<active, archive>>
         ELSE /\ archive' = Rename(archive, loc[p].archive_path, active)
              /\ active' = 0
    /\ loc' = [loc EXCEPT ![p] = CallWrite(@)]
    /\ UNCHANGED <<now, disabled, dirs, files, runs, journal>>
    /\ UNCHANGED <<hookVars, gateVars, findVars>>
    /\ UNCHANGED restVars

\* ------------------------------------------------------ write_observation
\* Lines 86-88: the parent directory, and open(observations_file, "a"),
\* which creates the file when the path is absent.
write_open(p) ==
    /\ loc[p].pc = "w_open"
    /\ dirs' = dirs \cup {"config"}
    /\ IF active = 0
         THEN /\ files' = Append(files, <<>>)
              /\ active' = Len(files) + 1
         ELSE UNCHANGED <<files, active>>
    /\ loc' = [loc EXCEPT ![p] =
          [@ EXCEPT !.pc = "w_write", !.f = active',
                    !.buf = WriteCalls(loc[p].observation, loc[p].id)]]
    /\ UNCHANGED <<now, disabled, archive, runs, journal>>
    /\ UNCHANGED <<hookVars, gateVars, findVars>>
    /\ UNCHANGED restVars

\* The history of one write call: the chunk, the stdin text of the
\* invocation, and whether the invocation had run archive_if_needed.
Written(c, l) ==
    [chunk |-> c, input |-> l.input, checked |-> l.checked,
     swallowed |-> l.swallowed]

\* Line 89: each write call appends its chunk to the open file; the process
\* exits after the last.
write_flush(p) ==
    /\ loc[p].pc = "w_write"
    /\ files' = [files EXCEPT ![loc[p].f] = Append(@, Head(loc[p].buf))]
    /\ journal' = journal \cup {Written(Head(loc[p].buf), loc[p])}
    /\ loc' = [loc EXCEPT ![p] =
          IF Tail(@.buf) = <<>> THEN Idle ELSE [@ EXCEPT !.buf = Tail(@)]]
    /\ UNCHANGED <<now, disabled, dirs, active, archive, runs>>
    /\ UNCHANGED <<hookVars, gateVars, findVars>>
    /\ UNCHANGED restVars

\* ------------------------------------------------------ filesystem errors
\* The positions at which the next statement is a filesystem call.
AtSyscall(pc) == pc \in {"a_stat", "a_mkdir", "a_rename", "w_open", "w_write"}

\* Whether an OSError raised at pc is inside the try of lines 33-43; the
\* calls of write_observation (lines 86-89) and of main (lines 145, 149) are
\* inside no try.
Catches(pc) == pc \in {"a_stat", "a_mkdir", "a_rename"}

\* A handler that ends the invocation.
SwallowAndExit(l) == [Idle EXCEPT !.swallowed = TRUE]

\* Lines 42-43 and 129-145: except OSError: pass; archive_if_needed returns
\* and main goes on to build and write the observation.
Swallow(l) == CallWrite([l EXCEPT !.swallowed = TRUE])

\* The filesystem call at the position of p raises OSError: archive_if_needed
\* swallows it and returns; anywhere else it leaves main uncaught.
os_error(p) ==
    /\ AtSyscall(loc[p].pc)
    /\ loc' = [loc EXCEPT ![p] =
          IF Catches(@.pc) THEN Swallow(@) ELSE [@ EXCEPT !.pc = "uncaught"]]
    /\ UNCHANGED <<now, disabled, dirs, files, active, archive, runs, journal>>
    /\ UNCHANGED <<hookVars, gateVars, findVars>>
    /\ UNCHANGED restVars

\* ------------------------------------------------------------ environment
\* A second passes.
Tick ==
    /\ now < MaxTime
    /\ now' = now + 1
    /\ UNCHANGED <<disabled, dirs, files, active, archive, loc, runs, journal>>
    /\ UNCHANGED <<hookVars, gateVars, findVars>>
    /\ UNCHANGED restVars

\* The user creates or removes the sentinel file in the config root.
touch_disabled ==
    /\ "config" \in dirs
    /\ disabled' = ~disabled
    /\ UNCHANGED <<now, dirs, files, active, archive, loc, runs, journal>>
    /\ UNCHANGED <<hookVars, gateVars, findVars>>
    /\ UNCHANGED restVars

\* ------------------------------------------------------------ session ids
IdShort == <<"a", "b", "c">>
IdEight == <<"1", "2", "3", "4", "5", "6", "7", "8">>

\* The sessions of one day: one whose CLAUDE_SESSION_ID is unset, one whose
\* id is shorter than ShortLen, one of ShortLen characters, and one longer
\* with the same last ShortLen characters.
Sessions == {"unset", "short", "eight", "long"}

\* os.environ.get("CLAUDE_SESSION_ID", "") in a hook of session s
CLAUDE_SESSION_ID(s) ==
    CASE s = "unset" -> <<>>
      [] s = "short" -> IdShort
      [] s = "eight" -> IdEight
      [] s = "long" -> <<"a", "b">> \o IdEight

\* A derivation that gives "default" to every id shorter than ShortLen.
ShortOrDefault(session_id) ==
    IF Len(session_id) >= ShortLen THEN Suffix(session_id, ShortLen) ELSE fallback

\* session_end.py lines 28-33, utils.py lines 71-79: session_id[-8:] of a
\* non-empty id, "default" otherwise.
get_session_id_short(session_id) ==
    IF session_id # <<>> THEN Suffix(session_id, ShortLen) ELSE fallback

\* The files of the sessions directory are named by the date and the short
\* id; all invocations are on one day, so the short id stands for the name.
NameOf(s) == get_session_id_short(CLAUDE_SESSION_ID(s))

\* One block of text in a marker file: what it is, and the marker file name
\* of the session whose invocation wrote it.
Block(kind, s) == [kind |-> kind, by |-> NameOf(s)]

\* The invocations of pre_compact and of session_end so far: each prints one
\* last line.
ncompact == stderr["saved"] + stderr["error"]
nends == stderr["ended"]

\* The file named k with content c, in the directory m.
WithFile(m, k, c) == [n \in DOMAIN m \cup {k} |-> IF n = k THEN c ELSE m[n]]

\* ------------------------------------------------------------ the session
\* The assistant creates the marker file of session s: nothing in the
\* repository creates marker files.
create_marker(s) ==
    /\ NameOf(s) \notin DOMAIN markers
    /\ Cardinality(DOMAIN markers) < MaxMarkers
    /\ markers' = WithFile(markers, NameOf(s),
                           [lines |-> << Block("notes", s) >>, mtime |-> now])
    /\ dirs' = dirs \cup {"sessions"}
    /\ UNCHANGED <<now, obsVars, gateVars, findVars>>
    /\ UNCHANGED restVars
    /\ UNCHANGED <<metadata, compaction_log, stderr>>

\* ------------------------------------------------------------ pre_compact
\* A log opened with mode "w".
LogTruncate(log, line) == << line >>

\* Lines 34-35: open(compaction_log, "a") and one write of one line.
LogAppend(log, line) == Append(log, line)

\* The line "[timestamp] Context compaction triggered" of the n-th
\* invocation; the timestamp is left out.
LogLine(n) == [text |-> "Context compaction triggered", n |-> n]

\* Lines 38-45: sessions[0] of the markers sorted by st_mtime, newest first;
\* glob yields the files in no particular order, so among the files of the
\* greatest st_mtime any may come first.
Newest(m) == {k \in DOMAIN m : \A j \in DOMAIN m : m[j].mtime <= m[k].mtime}

\* open(path, "a") and one write, on a file that exists.
AppendBlock(m, k, b) ==
    [m EXCEPT ![k] = [lines |-> Append(@.lines, b), mtime |-> now]]

\* Lines 26-50 and 53-57, in a hook of session s: the sessions directory,
\* the line of the compaction log, and the annotation of the newest marker
\* file if there is one; an OSError of the stat, the open or the write of the
\* annotation is caught at line 56.
pre_compact(s) ==
    /\ ncompact + nends < MaxHookRuns
    /\ dirs' = dirs \cup {"sessions"}
    /\ compaction_log' =
          LogAppend(compaction_log, LogLine(ncompact + 1))
    /\ \E fail \in BOOLEAN :
         IF fail
           THEN /\ stderr' = [stderr EXCEPT !["error"] = @ + 1]
                /\ UNCHANGED markers
           ELSE /\ stderr' = [stderr EXCEPT !["saved"] = @ + 1]
                /\ IF DOMAIN markers = {}
                     THEN UNCHANGED markers
                     ELSE \E active_session \in Newest(markers) :
                            markers' = AppendBlock(markers, active_session,
                                                   Block("compaction", s))
    /\ UNCHANGED <<now, obsVars, gateVars, findVars>>
    /\ UNCHANGED restVars
    /\ UNCHANGED metadata

\* ------------------------------------------------------------ session_end
\* An end marker written without the test of line 46.
EndMarkerAlways(m, k, b) ==
    IF k \in DOMAIN m THEN AppendBlock(m, k, b)
    ELSE WithFile(m, k, [lines |-> << b >>, mtime |-> now])

\* Lines 46-49: the end marker, if session_file.exists().
EndMarker(m, k, b) == IF k \in DOMAIN m THEN AppendBlock(m, k, b) ELSE m

\* Lines 53-57: the metadata dict.
Metadata(session_id) ==
    [session_id |-> session_id, ended_at |-> now, cwd |-> "cwd"]

\* The sessions whose invocations have written the metadata file named k.
Writers(k) == IF k \in DOMAIN metadata THEN metadata[k].writers ELSE {}

\* Lines 36-61, in a hook of session s: the end marker and the metadata
\* file, which write_text creates or overwrites.
session_end(s) ==
    /\ ncompact + nends < MaxHookRuns
    /\ dirs' = dirs \cup {"sessions"}
    /\ markers' = EndMarker(markers, NameOf(s), Block("end", s))
    /\ metadata' =
          WithFile(metadata, NameOf(s),
                   [content |-> Metadata(NameOf(s)),
                    writers |-> Writers(NameOf(s)) \cup {s}])
    /\ stderr' = [stderr EXCEPT !["ended"] = @ + 1]
    /\ UNCHANGED <<now, obsVars, gateVars, findVars>>
    /\ UNCHANGED restVars
    /\ UNCHANGED compaction_log

\* -------------------------------------------------------- evaluation gate
\* The text of a transcript is a sequence of symbols: one for each quoted
\* word, colon, space, brace and newline.
UserNoSpace == <<"\"type\"", ":", "\"user\"">>
UserWithSpace == <<"\"type\"", ":", " ", "\"user\"">>

\* One line of a transcript, by the message it holds.
Message(kind) ==
    CASE kind = "user" -> <<"{">> \o UserNoSpace \o <<"}", "\n">>
      [] kind = "user_sp" -> <<"{">> \o UserWithSpace \o <<"}", "\n">>
      [] kind = "assistant" ->
           <<"{", "\"type\"", ":", "\"assistant\"", "}", "\n">>

RECURSIVE Repeat(_, _)
Repeat(s, n) == IF n = 0 THEN <<>> ELSE s \o Repeat(s, n - 1)

\* A transcript of k1 user messages of the first encoding and k2 of the
\* second, each followed by an assistant message if replies is set.
Transcript(k1, k2, replies) ==
    LET reply == IF replies THEN Message("assistant") ELSE <<>>
    IN Repeat(Message("user") \o reply, k1)
         \o Repeat(Message("user_sp") \o reply, k2)

\* config.json: absent or unreadable, or with min_session_length.
NoConfig == [has |-> FALSE, min_session_length |-> 0]
Config(n) == [has |-> TRUE, min_session_length |-> n]

\* The inputs of one run: the config, CLAUDE_TRANSCRIPT_PATH ("unset", or
\* naming a file that is "missing", "unreadable" or "readable"), and the
\* text of the file with the numbers of messages it was built from.
GateInputs ==
    {[called |-> TRUE, config |-> c, path |-> p, k1 |-> k1, k2 |-> k2,
      content |-> Transcript(k1, k2, r)] :
        c \in {NoConfig, Config(1), Config(3)},
        p \in {"unset", "missing", "unreadable", "readable"},
        k1 \in 0..MaxMessages, k2 \in 0..MaxMessages, r \in BOOLEAN}

\* The positions from which sub occurs in content, at or after from.
Occurrences(sub, content, from) ==
    {i \in from..(Len(content) - Len(sub) + 1) :
        SubSeq(content, i, i + Len(sub) - 1) = sub}

\* The occurrences of sub in content at or after from that do not overlap,
\* taken from the left: the first, and those after its end.
RECURSIVE CountFrom(_, _, _)
CountFrom(sub, content, from) ==
    LET hits == Occurrences(sub, content, from)
        first == CHOOSE i \in hits : \A j \in hits : i <= j
    IN IF hits = {} THEN 0 ELSE 1 + CountFrom(sub, content, first + Len(sub))

\* content.count(sub)
Count(sub, content) == CountFrom(sub, content, 1)

\* A count that knows one encoding only.
count_messages_nospace(in) ==
    IF in.path # "readable" THEN 0 ELSE Count(UserNoSpace, in.content)

\* Lines 41-51: 0 for a file that is missing or cannot be read, else the
\* sum of the counts of the two encodings.
count_messages(in) ==
    IF in.path # "readable" THEN 0
    ELSE Count(UserNoSpace, in.content) + Count(UserWithSpace, in.content)

\* Line 56: config.get("min_session_length", 10)
min_session_length(config) ==
    IF config.has THEN config.min_session_length ELSE DefaultMinSessionLength

\* Lines 69-97: what main prints to stderr.
GateStderr(in) ==
    LET message_count == count_messages(in)
    IN IF in.path \in {"unset", "missing"} THEN <<>>
       ELSE IF message_count < min_session_length(in.config)
         THEN << [msg |-> "too short", n |-> message_count] >>
       ELSE << [msg |-> "evaluate", n |-> message_count],
               [msg |-> "save learned skills to", n |-> message_count] >>

\* Lines 54-97: one run of the gate.
evaluate_session ==
    /\ gate_in.called
    /\ ~gate_out.called
    /\ gate_out' = [called |-> TRUE, stderr |-> GateStderr(gate_in)]
    /\ UNCHANGED <<now, dirs, obsVars, hookVars, findVars, gate_in>>
    /\ UNCHANGED restVars

\* ------------------------------------------------------------- find_files
\* A file name and a pattern are sequences of characters.
\* s.replace(old, new), for one character old
Replace(s, old, new) ==
    Concat([i \in 1..Len(s) |-> IF s[i] = old THEN new ELSE << s[i] >>])

\* Line 105: the pattern with "." escaped, "*" as ".*" and "?" as "."
regex_pattern(pattern) ==
    Replace(Replace(Replace(pattern, ".", <<"\\", ".">>), "*", <<".", "*">>),
            "?", <<".">>)

\* re.compile: the atoms of a regular expression of escaped characters,
\* ".", literal characters and "*" after an atom.
RECURSIVE Compile(_)
Compile(re) ==
    IF re = <<>> THEN <<>>
    ELSE LET escaped == Head(re) = "\\" /\ Len(re) >= 2
             width == IF escaped THEN 2 ELSE 1
             atom == IF escaped THEN [any |-> FALSE, c |-> re[2]]
                     ELSE IF Head(re) = "." THEN [any |-> TRUE, c |-> "."]
                     ELSE [any |-> FALSE, c |-> Head(re)]
             star == Len(re) > width /\ re[width + 1] = "*"
             rest == SubSeq(re, width + (IF star THEN 2 ELSE 1), Len(re))
         IN << [any |-> atom.any, c |-> atom.c, star |-> star] >>
              \o Compile(rest)

\* Whether the atoms match the whole of name: regex.match with ^ and $.
RECURSIVE Match(_, _)
Match(atoms, name) ==
    IF atoms = <<>> THEN name = <<>>
    ELSE LET a == Head(atoms)
             takes == name # <<>> /\ (a.any \/ a.c = Head(name))
         IN IF a.star
              THEN Match(Tail(atoms), name) \/ (takes /\ Match(atoms, Tail(name)))
              ELSE takes /\ Match(Tail(atoms), Tail(name))

\* An age test that drops a file of exactly max_age_days.
TooOldAtLimit(t, st_mtime, max_age_days) ==
    max_age_days.some /\ (t - st_mtime) >= max_age_days.v * SecsPerDay

\* Lines 115-118: age_days > max_age_days, age_days the seconds since
\* st_mtime divided by the seconds of a day; no test without max_age_days.
TooOld(t, st_mtime, max_age_days) ==
    max_age_days.some /\ (t - st_mtime) > max_age_days.v * SecsPerDay

\* Lines 112-119 for the entries of a directory in iterdir order: the
\* files that match and are not too old.
RECURSIVE search_dir(_, _, _, _)
search_dir(entries, atoms, t, max_age_days) ==
    IF entries = <<>> THEN <<>>
    ELSE LET entry == Head(entries)
             rest == search_dir(Tail(entries), atoms, t, max_age_days)
         IN IF /\ entry.kind = "file"
               /\ Match(atoms, entry.name)
               /\ ~TooOld(t, entry.mtime, max_age_days)
              THEN << [path |-> entry.name, mtime |-> entry.mtime] >> \o rest
              ELSE rest

\* r in its place in results, which is sorted: after every element that is
\* as new or newer.
Insert(results, r) ==
    LET n == Cardinality({i \in 1..Len(results) : results[i].mtime >= r.mtime})
    IN SubSeq(results, 1, n) \o << r >> \o SubSeq(results, n + 1, Len(results))

\* Line 126: results.sort(key=mtime, reverse=True), a stable sort.
RECURSIVE SortNewestFirst(_)
SortNewestFirst(results) ==
    IF results = <<>> THEN <<>>
    ELSE Insert(SortNewestFirst(SubSeq(results, 1, Len(results) - 1)),
                results[Len(results)])

\* The names a directory may hold; the last is a subdirectory.
FindNames ==
    << <<"a", ".", "t">>, <<"b", ".", "t">>, <<"a", "t">>, <<"d", ".", "t">> >>
KindOf(i) == IF i = Len(FindNames) THEN "dir" ELSE "file"

\* The patterns: *.t, ?.t, a*, *
FindPatterns ==
    { <<"*", ".", "t">>, <<"?", ".", "t">>, <<"a", "*">>, <<"*">> }

Reverse(q) == [i \in 1..Len(q) |-> q[Len(q) + 1 - i]]

\* The entries of a directory that holds name i with st_mtime m[i], or not
\* at all when m[i] is -1, in one iterdir order or the opposite.
Listing(m, backwards) ==
    LET all == [i \in 1..Len(FindNames) |->
                  [name |-> FindNames[i], kind |-> KindOf(i), mtime |-> m[i]]]
        IsThere(entry) == entry.mtime # -1
        there == SelectSeq(all, IsThere)
    IN IF backwards THEN Reverse(there) ELSE there

\* The calls: a directory that does not exist, or one with its entries; a
\* pattern; max_age_days None, 0 or 1; the time of the call.
FindInputs ==
    {[called |-> TRUE, exists |-> x, entries |-> Listing(m, b), pattern |-> p,
      max_age_days |-> a, t |-> MaxMTime] :
        x \in BOOLEAN, m \in [1..Len(FindNames) -> -1..MaxMTime],
        b \in BOOLEAN, p \in FindPatterns,
        a \in {[some |-> FALSE, v |-> 0], [some |-> TRUE, v |-> 0],
                [some |-> TRUE, v |-> 1]}}

\* Lines 100-127, with recursive=False.
FindFiles(in) ==
    IF ~in.exists THEN <<>>
    ELSE SortNewestFirst(search_dir(in.entries,
                                    Compile(regex_pattern(in.pattern)),
                                    in.t, in.max_age_days))

\* One call of find_files.
find_files ==
    /\ find_in.called
    /\ ~find_out.called
    /\ find_out' = [called |-> TRUE, results |-> FindFiles(find_in)]
    /\ UNCHANGED <<now, dirs, obsVars, hookVars, gateVars, find_in>>
    /\ UNCHANGED restVars

\* ------------------------------------------- archive_if_needed, as a call
\* The files under the config root.
Disk == [dirs |-> dirs, files |-> files, active |-> active, archive |-> archive]

\* A rotation of every log that exists.
archive_always(fs, t) ==
    IF fs.active = 0 THEN fs
    ELSE [fs EXCEPT !.dirs = @ \cup {"config", "archive"},
                    !.archive = Rename(@, t, fs.active),
                    !.active = 0]

\* Lines 28-43, from call to return with no other process running: nothing
\* for a log that is absent or below the threshold, else the archive
\* directory and the rename to the name of the time t.
archive_if_needed(fs, t) ==
    IF fs.active = 0 THEN fs
    ELSE IF NeedsArchive(Size(fs.files[fs.active]))
      THEN [fs EXCEPT !.dirs = @ \cup {"config", "archive"},
                      !.archive = Rename(@, t, fs.active),
                      !.active = 0]
    ELSE fs

\* A caller other than main calls archive_if_needed while no invocation
\* runs; the history keeps the number of invocations so far and the size the
\* call found (-1 for no log).
rotation_check ==
    /\ \A p \in Procs : loc[p].pc = "idle"
    /\ Len(checks) < MaxChecks
    /\ LET after == archive_if_needed(Disk, now)
       IN /\ dirs' = after.dirs
          /\ files' = after.files
          /\ active' = after.active
          /\ archive' = after.archive
    /\ checks' = Append(checks,
          [runs |-> runs,
           st_size |-> IF active = 0 THEN -1 ELSE Size(files[active])])
    /\ UNCHANGED <<now, disabled, loc, runs, journal>>
    /\ UNCHANGED <<hookVars, gateVars, findVars, compactVars>>

\* -------------------------------------------------------- suggest_compact
\* The values of COMPACT_THRESHOLD of the invocations.
ThresholdEnvs == {EnvUnset, EnvInt(3), EnvGarbage}

\* Lines 41-46: the lines printed for a count and a threshold.
Suggestions(count, threshold) ==
    (IF count = threshold
       THEN << [kind |-> "reached", n |-> threshold] >> ELSE <<>>)
    \o (IF count > threshold /\ count % SuggestInterval = 0
          THEN << [kind |-> "checkpoint", n |-> count] >> ELSE <<>>)

\* Lines 24-28 and 50-53: int(os.environ.get("COMPACT_THRESHOLD", "50"));
\* int raises ValueError for a text that is no integer, which leaves main
\* and is caught and printed at lines 52-53.
sc_start(p) ==
    /\ sc[p].pc \in {"idle", "exit", "error"}
    /\ started < MaxCounts
    /\ started' = started + 1
    /\ \E env \in ThresholdEnvs :
         IF env.set /\ ~env.valid
           THEN /\ sc' = [sc EXCEPT ![p] = [AtRest EXCEPT !.pc = "error", !.env = env]]
                /\ sc_stderr' = Append(sc_stderr, [kind |-> "error", n |-> 0])
           ELSE /\ sc' = [sc EXCEPT ![p] =
                      [AtRest EXCEPT
                         !.pc = "read", !.env = env, !.count = 1,
                         !.threshold = IF env.set THEN env.n ELSE DefaultThreshold]]
                /\ UNCHANGED sc_stderr
    /\ UNCHANGED <<now, dirs, obsVars, hookVars, gateVars, findVars, checks>>
    /\ UNCHANGED <<counter_file, completed>>

\* Lines 31-35: the count of the file plus one; 1 if the file is absent or
\* its text is no integer (ValueError).
sc_read(p) ==
    /\ sc[p].pc = "read"
    /\ sc' = [sc EXCEPT ![p] =
          [@ EXCEPT !.pc = "write",
                    !.count = IF counter_file.exists /\ ~counter_file.empty
                                THEN counter_file.n + 1 ELSE 1]]
    /\ UNCHANGED <<now, dirs, obsVars, hookVars, gateVars, findVars, checks>>
    /\ UNCHANGED <<counter_file, sc_stderr, started, completed>>

\* Line 38, the open of write_text: the file is created or truncated.
sc_truncate(p) ==
    /\ sc[p].pc = "write"
    /\ counter_file' = Truncated
    /\ sc' = [sc EXCEPT ![p] = [@ EXCEPT !.pc = "flush"]]
    /\ UNCHANGED <<now, dirs, obsVars, hookVars, gateVars, findVars, checks>>
    /\ UNCHANGED <<sc_stderr, started, completed>>

\* Lines 38-46: the write of str(count), the suggestions, and the exit.
sc_write(p) ==
    /\ sc[p].pc = "flush"
    /\ counter_file' = Counter(sc[p].count)
    /\ sc_stderr' = sc_stderr \o Suggestions(sc[p].count, sc[p].threshold)
    /\ sc' = [sc EXCEPT ![p] = [@ EXCEPT !.pc = "exit", !.saved = TRUE]]
    /\ completed' = completed + 1
    /\ UNCHANGED <<now, dirs, obsVars, hookVars, gateVars, findVars, checks>>
    /\ UNCHANGED started

\* ---------------------------------------------------------- specifications
Step(p) ==
    \/ archive_exists(p)
    \/ archive_stat(p)
    \/ archive_mkdir(p)
    \/ archive_rename(p)
    \/ write_open(p)
    \/ write_flush(p)

\* Concurrent observe processes.
Next ==
    \/ \E p \in Procs : main_start(p, MaxRuns, ConcInputs)
    \/ \E p \in Procs : Step(p)
    \/ Tick

Spec == Init /\ [][Next]_vars

\* Non-overlapping invocations: one process, which starts again when it
\* has exited.
SeqNext ==
    \/ main_start(1, MaxSeqRuns, SeqInputs)
    \/ Step(1)
    \/ Tick
    \/ touch_disabled

SeqSpec == Init /\ [][SeqNext]_vars

\* Non-overlapping invocations whose filesystem calls may fail.
FaultNext ==
    \/ main_start(1, MaxFaultRuns, FaultInputs)
    \/ Step(1)
    \/ os_error(1)
    \/ touch_disabled

FaultSpec == Init /\ [][FaultNext]_vars

\* The hooks of the sessions of one day.
HookNext ==
    \/ \E s \in Sessions :
          \/ create_marker(s)
          \/ pre_compact(s)
          \/ session_end(s)
    \/ Tick

HookSpec == Init /\ [][HookNext]_vars

\* One run of the evaluation gate on each of its inputs.
GateSpecInit ==
    /\ ObserveInit
    /\ HooksInit
    /\ gate_in \in GateInputs
    /\ gate_out = NotCalled
    /\ FindInit
    /\ RestInit(0)

GateSpec == GateSpecInit /\ [][evaluate_session]_vars

\* One call of find_files on each of its inputs.
FindSpecInit ==
    /\ ObserveInit
    /\ HooksInit
    /\ GateInit
    /\ find_in \in FindInputs
    /\ find_out = NotCalled
    /\ RestInit(0)

FindSpec == FindSpecInit /\ [][find_files]_vars

\* The stdin texts of CheckSpec: records of 7, 9 and 10 bytes.
CheckInputs == {InNumber, InPost, InMalformed}

\* Non-overlapping invocations, with direct calls of archive_if_needed
\* between them.
CheckNext ==
    \/ main_start(1, MaxCheckRuns, CheckInputs)
    \/ Step(1)
    \/ Tick
    \/ rotation_check

CheckSpec == Init /\ [][CheckNext]_vars

\* The tool-count check processes of one session, which has made no tool
\* call yet or is two short of the default threshold.
CompactInit ==
    /\ ObserveInit
    /\ HooksInit
    /\ GateInit
    /\ FindInit
    /\ \E c \in {0, DefaultThreshold - 2} : RestInit(c)

CompactNext ==
    \E p \in Procs : sc_start(p) \/ sc_read(p) \/ sc_truncate(p) \/ sc_write(p)

CompactSpec == CompactInit /\ [][CompactNext]_vars
\* ------------------------------------------------------------ observables
\* The content of the active log, empty when the path is absent.
ActiveContent == IF active = 0 THEN <<>> ELSE files[active]

\* The inodes the archive directory names.
ArchiveInodes == {archive[n] : n \in DOMAIN archive}

RECURSIVE MaxChunkBytes(_)
\* The size of the largest record of a file content.
MaxChunkBytes(content) ==
    IF content = <<>> THEN 0
    ELSE LET m == MaxChunkBytes(Tail(content))
             h == ChunkBytes(Head(content))
         IN IF h > m THEN h ELSE m

\* ------------------------------------------------------------------ claims
\* C1: every invocation that appends a record (tool_start, tool_complete or
\* parse_error) has evaluated archive_if_needed before the append.
C1_RotationCheckedBeforeAppend == \A e \in journal : e.checked

\* C2: after non-overlapping invocations the active log exceeds the rotation
\* threshold by no more than the size of one record (the largest it holds).
C2_ActiveWithinOneRecord ==
    Size(ActiveContent) - Threshold <= MaxChunkBytes(ActiveContent)
\* The files a path names: the active log and the archive files.
NamedInodes == (IF active = 0 THEN {} ELSE {active}) \cup ArchiveInodes

\* The places where chunk c stands in a named file.
Places(c) ==
    {pl \in UNION {{<<i, k>> : k \in 1..Len(files[i])} : i \in NamedInodes} :
        files[pl[1]][pl[2]] = c}

\* C3: every record ever appended is present, unchanged, in exactly one of
\* the active log and the archive files.
C3_RecordsPreserved == \A e \in journal : Cardinality(Places(e.chunk)) = 1

\* C4: an archive file is immutable: a name of the archive directory names
\* the same content in every later state.
C4_ArchiveImmutable ==
    [][\A n \in DOMAIN archive :
          /\ n \in DOMAIN archive'
          /\ files'[archive'[n]] = files[archive[n]]]_vars

\* C5: a redundant rotation of the same oversized log changes no file, so
\* no freshly recreated, under-threshold active log is ever renamed into the
\* archive: every archive file was at or above the threshold when renamed
\* (and files only grow).
C5_NoFreshLogArchived ==
    \A n \in DOMAIN archive : Size(files[archive[n]]) >= Threshold

RECURSIVE Lines(_, _)
\* The lines of a file content: the sequence, one entry per newline, of the
\* JSON texts written since the newline before; cur are those of the line
\* being read. A last entry without a newline is an unterminated line.
Lines(content, cur) ==
    IF content = <<>> THEN (IF cur = <<>> THEN <<>> ELSE << cur >>)
    ELSE LET c == Head(content)
             now_cur == IF c.body THEN Append(cur, c.obs) ELSE cur
         IN IF c.nl THEN << now_cur >> \o Lines(Tail(content), <<>>)
            ELSE Lines(Tail(content), now_cur)

\* Whether the content ends with a newline (or is empty).
Terminated(content) == content = <<>> \/ content[Len(content)].nl

\* C6: every line of every file is one complete JSON record, the text of one
\* observation some invocation wrote: no line is split or merged.
C6_LinesAreWholeRecords ==
    \A i \in 1..Len(files) :
        /\ Terminated(files[i])
        /\ \A k \in 1..Len(Lines(files[i], <<>>)) :
              /\ Len(Lines(files[i], <<>>)[k]) = 1
              /\ \E e \in journal : e.chunk.obs = Lines(files[i], <<>>)[k][1]

\* C6 witness: a process still holds the log open for its write while an
\* invocation that started after it has already appended its line there.
C6_Witness ==
    \E p \in Procs :
        /\ loc[p].pc = "w_write"
        /\ \E k \in 1..Len(files[loc[p].f]) : files[loc[p].f][k].id > loc[p].id

\* C7: each time archive_if_needed renames an existing log at or above the
\* threshold, exactly one new file appears in the archive directory, holding
\* the log's former content, and the active path is absent.
C7_RotationAddsOneArchive ==
    [][\A p \in Procs :
          (loc[p].pc = "a_rename" /\ loc'[p].pc # "a_rename" /\ active # 0) =>
             /\ active' = 0
             /\ Cardinality(DOMAIN archive') = Cardinality(DOMAIN archive) + 1
             /\ \E n \in DOMAIN archive' \ DOMAIN archive :
                    files'[archive'[n]] = files[active]]_vars

\* C8: archive_if_needed rotates an existing log if and only if its size is
\* at least maxSizeMB * 1024 * 1024 bytes: when it has returned, the log it
\* found (st_size > 0) is in the archive and the active path is absent if
\* the size was at or above the threshold, and is still the active log if it
\* was below.
C8_RotatesIffAtThreshold ==
    \A p \in Procs :
        (loc[p].pc = "w_open" /\ loc[p].checked /\ loc[p].st_size > 0) =>
           IF loc[p].st_size >= max_size_mb * BytesPerMB
             THEN /\ active = 0
                  /\ loc[p].archive_path \in DOMAIN archive
                  /\ Size(files[archive[loc[p].archive_path]]) = loc[p].st_size
             ELSE /\ active # 0
                  /\ Size(files[active]) = loc[p].st_size

\* C8 witness: a log one byte below the threshold was left in place, after a
\* log exactly at the threshold had been rotated.
C8_Witness ==
    \E p \in Procs :
        /\ loc[p].pc = "w_open" /\ loc[p].checked
        /\ loc[p].st_size = max_size_mb * BytesPerMB - 1
        /\ active # 0
        /\ \E n \in DOMAIN archive :
              Size(files[archive[n]]) = max_size_mb * BytesPerMB

\* The input is an object whose hook_type is a string containing "Pre".
HookTypeStringHasPre(in) ==
    /\ in.ok /\ in.t = "dict" /\ "hook_type" \in DOMAIN in.f
    /\ in.f["hook_type"].t = "str"
    /\ Contains(Pre, in.f["hook_type"].s)

\* C9: for a stdin text that is valid JSON the appended record has timestamp
\* and event; the event is tool_start exactly when the input is an object
\* whose hook_type string contains "Pre", tool_complete for every other
\* input that normalizes, and parse_error otherwise.
C9_EventMatchesInput ==
    \A e \in journal :
        e.input.ok =>
           LET o == e.chunk.obs
           IN /\ {"timestamp", "event"} \subseteq o.has
              /\ o.event \in {"tool_start", "tool_complete", "parse_error"}
              /\ o.event = "tool_start" <=> HookTypeStringHasPre(e.input)
              /\ o.event = "parse_error" <=> ~parse_hook_input(e.input).parsed

\* C10: input appears only on tool_start, output only on tool_complete, raw
\* only on parse_error, and tool on every tool_start and tool_complete.
C10_FieldsMatchEvent ==
    \A e \in journal :
        LET o == e.chunk.obs
        IN /\ "input" \in o.has => o.event = "tool_start"
           /\ "output" \in o.has => o.event = "tool_complete"
           /\ "raw" \in o.has => o.event = "parse_error"
           /\ o.event \in {"tool_start", "tool_complete"} => "tool" \in o.has

\* C10 witness: the log history holds a tool_start with its input, a
\* tool_complete with its output and a parse_error with its raw text.
C10_Witness ==
    /\ \E e \in journal : e.chunk.obs.event = "tool_start" /\ "input" \in e.chunk.obs.has
    /\ \E e \in journal : e.chunk.obs.event = "tool_complete" /\ "output" \in e.chunk.obs.has
    /\ \E e \in journal : e.chunk.obs.event = "parse_error" /\ "raw" \in e.chunk.obs.has
\* C11: the session field of a tool_start or tool_complete record is the
\* session_id of the input as supplied, never its last 8 characters, and
\* "unknown" when the input has no session_id.
C11_SessionVerbatim ==
    \A e \in journal :
        e.chunk.obs.event \in {"tool_start", "tool_complete"} =>
           /\ "session" \in e.chunk.obs.has
           /\ e.chunk.obs.session =
                 IF "session_id" \in DOMAIN e.input.f
                   THEN e.input.f["session_id"] ELSE JStr(unknown)

\* C11 witness: one record was written for a session id longer than 8
\* characters and one for an input without session_id.
C11_Witness ==
    /\ \E e \in journal :
          /\ "session_id" \in DOMAIN e.input.f
          /\ Len(e.input.f["session_id"].s) > 8
          /\ e.chunk.obs.session = e.input.f["session_id"]
    /\ \E e \in journal :
          /\ e.chunk.obs.event = "tool_complete"
          /\ "session_id" \notin DOMAIN e.input.f
          /\ e.chunk.obs.session = JStr(unknown)

\* C12: an invocation that starts while the sentinel file exists leaves the
\* active log, the archive directory and every other file and directory
\* unchanged, and writes nothing later.
C12_DisabledChangesNothing ==
    [][(disabled /\ runs' # runs) =>
          /\ UNCHANGED <<dirs, files, active, archive, journal>>
          /\ \A p \in Procs : loc'[p].pc = loc[p].pc]_vars

\* C12 witness: two invocations with stdin texts that are not blank have run
\* to their end and a single record was ever written: the sentinel stopped
\* the second invocation.
C12_Witness ==
    /\ disabled
    /\ runs = 2
    /\ Cardinality(journal) = 1
    /\ \A p \in Procs : loc[p].pc = "idle"

\* C13: no entry point lets an error reach the host: after every filesystem
\* failure the invocation ends in a no-op or a diagnostic, never in an
\* uncaught exception.
C13_NoUncaughtError == \A p \in Procs : loc[p].pc # "uncaught"
\* C14: every "Compaction occurred" annotation is in the marker file of the
\* session whose pre-compaction hook wrote it, never in the marker file of
\* another session.
C14_AnnotatesOwnMarker ==
    \A k \in DOMAIN markers :
        \A i \in 1..Len(markers[k].lines) :
            markers[k].lines[i].kind = "compaction" => markers[k].lines[i].by = k

\* C15: every step leaves the lines the compaction log had in place, and adds
\* exactly one line if it is a pre-compaction invocation (whether it ends in
\* "State saved" or in "Error") and none otherwise.
C15_OneLogLinePerCompaction ==
    [][/\ Len(compaction_log') = Len(compaction_log) + (ncompact' - ncompact)
       /\ SubSeq(compaction_log', 1, Len(compaction_log)) = compaction_log]_vars

\* C15 witness: two pre-compaction invocations have run, one annotated a
\* marker file, the other failed after the log line, and the log has two lines.
C15_Witness ==
    /\ stderr["saved"] = 1
    /\ stderr["error"] = 1
    /\ Len(compaction_log) = 2
    /\ \E k \in DOMAIN markers :
          \E i \in 1..Len(markers[k].lines) : markers[k].lines[i].kind = "compaction"

\* C16: a session-end invocation creates no marker file, appends one end
\* marker to the marker file of its session if that file exists and changes
\* no other marker file, and leaves the metadata file of its session holding
\* session_id, ended_at and cwd, whatever the file held before; it changes
\* no other metadata file.
C16_EndMarkerIffExists ==
    [][nends' # nends =>
         \E s \in Sessions :
            LET k == NameOf(s)
            IN /\ DOMAIN markers' = DOMAIN markers
               /\ \A j \in DOMAIN markers :
                     markers'[j].lines =
                        IF j = k
                          THEN Append(markers[j].lines, [kind |-> "end", by |-> k])
                          ELSE markers[j].lines
               /\ k \in DOMAIN metadata'
               /\ metadata'[k].content =
                     [session_id |-> k, ended_at |-> now, cwd |-> "cwd"]
               /\ s \in metadata'[k].writers
               /\ \A j \in DOMAIN metadata' \ {k} :
                     j \in DOMAIN metadata /\ metadata'[j] = metadata[j]]_vars

\* C16 witness: one session ended with its marker file present, which now
\* ends with the end marker, and another ended with no marker file; both have
\* their metadata file.
C16_Witness ==
    /\ \E k \in DOMAIN metadata \cap DOMAIN markers :
          markers[k].lines[Len(markers[k].lines)] = [kind |-> "end", by |-> k]
    /\ \E k \in DOMAIN metadata : k \notin DOMAIN markers

\* The last ShortLen characters of an id that has as many.
LastChars(id) == SubSeq(id, Len(id) - ShortLen + 1, Len(id))

\* C17: the short id in the name of the metadata file a session writes is
\* the last 8 characters of its session id, and "default" when the id is
\* unset or shorter than 8 characters.
C17_ShortIdOrDefault ==
    \A k \in DOMAIN metadata :
        \A s \in metadata[k].writers :
            k = IF Len(CLAUDE_SESSION_ID(s)) < ShortLen
                  THEN fallback ELSE LastChars(CLAUDE_SESSION_ID(s))

\* C17, amended: the short id in the name of the metadata file a session
\* writes is the last 8 characters of its session id when the id has 8 or
\* more, the whole id when it is shorter and not empty, and "default" when
\* it is unset or empty.
C17_ShortIdAmended ==
    \A k \in DOMAIN metadata :
        \A s \in metadata[k].writers :
            k = IF CLAUDE_SESSION_ID(s) = <<>> THEN fallback
                ELSE IF Len(CLAUDE_SESSION_ID(s)) < ShortLen
                  THEN CLAUDE_SESSION_ID(s)
                ELSE LastChars(CLAUDE_SESSION_ID(s))

\* C17 witness: the sessions with no id, with a 3-character id and with a
\* 10-character id have each written their metadata file.
C17_Witness ==
    /\ fallback \in DOMAIN metadata /\ "unset" \in metadata[fallback].writers
    /\ IdShort \in DOMAIN metadata /\ "short" \in metadata[IdShort].writers
    /\ IdEight \in DOMAIN metadata /\ "long" \in metadata[IdEight].writers

\* C18: no metadata file is written by two sessions.
C18_OneMetadataFilePerSession ==
    \A k \in DOMAIN metadata :
        \A s1, s2 \in metadata[k].writers : s1 = s2
\* The messages of the gate's stderr.
Signals == {gate_out.stderr[i].msg : i \in 1..Len(gate_out.stderr)}

\* C19: on a transcript that can be read, the gate signals evaluation and
\* emits the path of the learned artifacts exactly when the number of user
\* messages of both encodings is at least the configured minimum (10 without
\* a configuration), and else reports the session as too short and emits no
\* path; with the transcript path unset or naming no file it prints nothing.
C19_GateSignalsIffEnough ==
    gate_out.called =>
       LET n == gate_in.k1 + gate_in.k2
           minMessages ==
              IF gate_in.config.has
                THEN gate_in.config.min_session_length ELSE 10
       IN /\ gate_in.path = "readable" /\ n >= minMessages =>
                Signals = {"evaluate", "save learned skills to"}
          /\ gate_in.path = "readable" /\ n < minMessages =>
                Signals = {"too short"}
          /\ gate_in.path \in {"unset", "missing"} => Signals = {}

\* C19 witness: with no configuration, a transcript of exactly 10 user
\* messages, some of each encoding, made the gate signal evaluation.
C19_Witness ==
    /\ gate_out.called
    /\ gate_in.path = "readable"
    /\ ~gate_in.config.has
    /\ gate_in.k1 > 0 /\ gate_in.k2 > 0 /\ gate_in.k1 + gate_in.k2 = 10
    /\ "evaluate" \in Signals
\* Whether a name matches a glob pattern: * stands for any characters, ?
\* for one, every other character for itself.
RECURSIVE GlobMatch(_, _)
GlobMatch(pattern, name) ==
    IF pattern = <<>> THEN name = <<>>
    ELSE IF Head(pattern) = "*"
      THEN \E i \in 0..Len(name) :
              GlobMatch(Tail(pattern), SubSeq(name, i + 1, Len(name)))
    ELSE /\ name # <<>>
         /\ Head(pattern) \in {"?", Head(name)}
         /\ GlobMatch(Tail(pattern), Tail(name))

\* The files find_files is to return: the files of the directory whose name
\* matches and whose age in seconds is at most max_age_days days.
Wanted ==
    {i \in 1..Len(find_in.entries) :
        /\ find_in.entries[i].kind = "file"
        /\ GlobMatch(find_in.pattern, find_in.entries[i].name)
        /\ find_in.max_age_days.some =>
              find_in.t - find_in.entries[i].mtime
                 <= find_in.max_age_days.v * SecsPerDay}

\* C20: find_files returns each file of the directory that matches the
\* pattern and is at most max_age_days old, with its modification time,
\* exactly once and nothing else, newest first; for a directory that does
\* not exist it returns the empty sequence.
C20_FindFilesByAge ==
    find_out.called =>
       LET r == find_out.results
       IN IF ~find_in.exists THEN r = <<>>
          ELSE /\ {r[i] : i \in 1..Len(r)} =
                     {[path |-> find_in.entries[i].name,
                       mtime |-> find_in.entries[i].mtime] : i \in Wanted}
               /\ Len(r) = Cardinality(Wanted)
               /\ \A i, j \in 1..Len(r) : i < j => r[i].mtime >= r[j].mtime

\* C20 witness: with max_age_days 1, a call returned two files of different
\* times, one of them exactly one day old, and left out an older file that
\* matches and a subdirectory that matches.
C20_Witness ==
    /\ find_out.called
    /\ find_in.exists
    /\ find_in.max_age_days = [some |-> TRUE, v |-> 1]
    /\ Len(find_out.results) = 2
    /\ find_out.results[1].mtime > find_out.results[2].mtime
    /\ find_in.t - find_out.results[2].mtime = SecsPerDay
    /\ \E i \in 1..Len(find_in.entries) :
          /\ find_in.entries[i].kind = "file"
          /\ GlobMatch(find_in.pattern, find_in.entries[i].name)
          /\ find_in.t - find_in.entries[i].mtime > SecsPerDay
    /\ \E i \in 1..Len(find_in.entries) :
          /\ find_in.entries[i].kind = "dir"
          /\ GlobMatch(find_in.pattern, find_in.entries[i].name)
\* C22: the step at which archive_if_needed swallows an OS error of its
\* stat, mkdir or rename changes no file, leaves the active log and the
\* archive directory as they were, and hands the invocation to
\* write_observation; the record that invocation then writes is appended to
\* the active log.
C22_ArchiveErrorSwallowed ==
    [][\A p \in Procs :
          /\ (loc'[p].swallowed /\ ~loc[p].swallowed) =>
                /\ UNCHANGED <<files, active, archive>>
                /\ loc'[p].pc = "w_open"
          /\ (loc[p].swallowed /\ loc[p].pc = "w_write" /\ loc'[p].pc = "idle") =>
                /\ active' # 0
                /\ files'[active'] = Append(ActiveContent, Head(loc[p].buf))]_vars

\* C22 witness: an invocation found the log at or above the threshold, its
\* rotation failed and was swallowed, and its record is now the second of
\* the active log, which was not archived.
C22_Witness ==
    /\ archive = NoFiles
    /\ active # 0
    /\ Len(ActiveContent) = 2
    /\ Size(SubSeq(ActiveContent, 1, 1)) >= Threshold
    /\ \E e \in journal : e.swallowed /\ e.chunk = ActiveContent[2]
\* The invocations that have appended a record: those whose stdin was not
\* blank, started with no sentinel.
Appenders == {e.chunk.id : e \in journal}

\* The records of the active log and the archive files, one for each
\* terminated line.
RecordsOnDisk ==
    UNION {{<<i, k>> : k \in 1..Len(Lines(files[i], <<>>))} : i \in NamedInodes}

\* C24: whenever no invocation is running, the number of records in the
\* active log and all archive files together is the number of invocations
\* that were not blank (each of which has appended exactly one record).
C24_RecordCountIsInvocations ==
    (\A p \in Procs : loc[p].pc = "idle") =>
       /\ Cardinality(journal) = Cardinality(Appenders)
       /\ Cardinality(RecordsOnDisk) = Cardinality(Appenders)
\* C23: a direct call of archive_if_needed that finds the log below the
\* threshold changes no directory, no file, and neither the active log nor
\* the archive directory; so the first of two calls in a row changes
\* nothing, and the second, which finds what the first found, changes
\* nothing either.
C23_CheckBelowThresholdIdempotent ==
    [][(/\ Len(checks') > Len(checks)
        /\ active # 0
        /\ Size(ActiveContent) < Threshold) =>
          UNCHANGED <<dirs, files, active, archive>>]_vars

\* C23 witness: two calls in a row, with no invocation between them, found
\* the same log, which holds a record and is below the threshold.
C23_Witness ==
    /\ Len(checks) = 2
    /\ checks[1] = checks[2]
    /\ checks[2].st_size > 0
    /\ checks[2].st_size < Threshold
    /\ active # 0
    /\ Size(ActiveContent) = checks[2].st_size
    /\ archive = NoFiles /\ "archive" \notin dirs

\* C21: an invocation of the tool-count check whose COMPACT_THRESHOLD is
\* unset or is no integer has used the threshold 50 and has saved its count.
C21_ThresholdFallback ==
    \A p \in Procs :
        (sc[p].pc \in {"exit", "error"} /\ ~sc[p].env.valid) =>
           sc[p].threshold = 50 /\ sc[p].saved

\* C25: whenever no check process is running, the counter file holds the
\* number of invocations the session has completed, and no threshold
\* suggestion has been printed twice.
C25_CounterCountsInvocations ==
    (\A p \in Procs : sc[p].pc \in {"idle", "exit", "error"}) =>
       /\ completed > 0 => counter_file = Counter(completed)
       /\ \A i, j \in 1..Len(sc_stderr) :
             (i < j /\ sc_stderr[i].kind = "reached") =>
                sc_stderr[j] # sc_stderr[i]
====
